---- MODULE Spec2Model ----
(***************************************************************************)
(* The avatar service registry of djblets (djblets/avatars/registry.py):   *)
(* a plugin registry with a persisted enabled set and default service,     *)
(* reconciled lazily against the site configuration.                       *)
(*                                                                         *)
(* Every method is an operator from a registry state r (a record) to the   *)
(* registry state after the call; r.exc names the exception the call       *)
(* raised ("none" when it returned normally).  One action per public       *)
(* method applies the operator to the current state.                       *)
(***************************************************************************)
EXTENDS FiniteSets, Integers, Sequences, TLC

\* Python's None.
None == "None"

\* Longest list of ids found in the site configuration before the first save.
MaxStoredLen == 2

\* The avatar service objects that exist in the process.  "a1" and "a2" are
\* two distinct objects that declare the same avatar_service_id.
Services == {"gravatar", "a1", "a2"}

avatar_service_id(service) ==
    IF service = "gravatar" THEN "G" ELSE "A"

ServiceIds == {avatar_service_id(s) : s \in Services}

default_avatar_service_classes == {"gravatar"}

\* The iteration orders a Python set of service ids can have: list(a_set) and
\* "for x in a_set" walk the members in an order the set decides.
Orders ==
    {o \in [1..Cardinality(ServiceIds) -> ServiceIds] :
        \A i, j \in 1..Cardinality(ServiceIds) : i # j => o[i] # o[j]}

list_of(ids, ord) == SelectSeq(ord, LAMBDA x : x \in ids)

set_of(list) == {list[i] : i \in 1..Len(list)}

StoredLists ==
    UNION {[1..n -> ServiceIds] : n \in 0..MaxStoredLen}

\* siteconfig.get() of a key that was never set: None, which is no list of ids.
NoList == <<None>>

VARIABLES
    populated,      \* Registry._populated
    items,          \* Registry._items: the registered service objects
    enabled,        \* AvatarServiceRegistry._enabled_services (ids)
    defaultId,      \* AvatarServiceRegistry._default_service_id
    cfgEnabled,     \* siteconfig['avatars_enabled_services'] (None or a list)
    cfgDefault,     \* siteconfig['avatars_default_service']
    call,           \* the last public call: what it was and how it ended
    threads,        \* per thread: where it is in a call on the registry
    initializer,    \* CounterField._initializer of the field "count"
    db,             \* the stored row of the model with the counter fields
    inst,           \* per writer: its in-memory model instance
    pc,             \* per writer: where it is in a counter method
    pend,           \* per writer: what the method in progress still holds
    locks,          \* CounterField._locks of the field "count"
    ghost,          \* bookkeeping of the counter updates issued so far
    cop             \* the last step of a counter method

regVars == <<populated, items, enabled, defaultId, cfgEnabled, cfgDefault,
             call, threads>>

ctrVars == <<initializer, db, inst, pc, pend, locks, ghost, cop>>

vars == <<populated, items, enabled, defaultId, cfgEnabled, cfgDefault, call,
          threads, initializer, db, inst, pc, pend, locks, ghost, cop>>

\* The registry and the store as one record, at the start of a public call.
Cur ==
    [populated |-> populated, items |-> items, enabled |-> enabled,
     defaultId |-> defaultId, cfgEnabled |-> cfgEnabled,
     cfgDefault |-> cfgDefault,
     exc |-> "none", writes |-> <<>>, logged |-> {}, reads |-> 0,
     ret |-> None]

\* siteconfig.get(key): the read is counted, the value is r.cfgEnabled or
\* r.cfgDefault.
siteconfig_get(r) == [r EXCEPT !.reads = @ + 1]

raise(r, error) == [r EXCEPT !.exc = error]

log_error(r, key, service_id) ==
    [r EXCEPT !.logged = @ \cup {<<key, service_id>>}]

----------------------------------------------------------------------------
(* AvatarServiceRegistry.save *)

\* save writing the enabled ids only.
save_without_default(r, ord) ==
    [r EXCEPT !.cfgEnabled = list_of(r.enabled, ord),
              !.writes = Append(@, [enabled |-> r.enabled,
                                    defaultId |-> r.defaultId])]

save(r, ord) ==
    [r EXCEPT !.cfgEnabled = list_of(r.enabled, ord),
              !.cfgDefault = r.defaultId,
              !.writes = Append(@, [enabled |-> r.enabled,
                                    defaultId |-> r.defaultId])]

----------------------------------------------------------------------------
(* The base Registry, on a registry whose populated flag is already set    *)
(* (every base method starts with self.populate()).                        *)

item_with_id(r, service_id) ==
    IF \E s \in r.items : avatar_service_id(s) = service_id
    THEN CHOOSE s \in r.items : avatar_service_id(s) = service_id
    ELSE None

Registry_register(r, item) ==
    IF item \in r.items
        \/ \E s \in r.items : avatar_service_id(s) = avatar_service_id(item)
    THEN raise(r, "AlreadyRegisteredError")
    ELSE [r EXCEPT !.items = @ \cup {item}]

Registry_unregister(r, item) ==
    IF item \notin r.items
    THEN raise(r, "NotRegisteredError")
    ELSE [r EXCEPT !.items = @ \ {item}]

RECURSIVE register_defaults(_, _)
register_defaults(r, todo) ==
    IF todo = {} \/ r.exc # "none" THEN r
    ELSE LET item == CHOOSE s \in todo : TRUE
         IN register_defaults(Registry_register(r, item), todo \ {item})

\* The flag is set before the defaults are registered, so that the
\* self.populate() at the start of register() returns at once.
Registry_populate(r) ==
    register_defaults([r EXCEPT !.populated = TRUE],
                      default_avatar_service_classes)

----------------------------------------------------------------------------
(* AvatarServiceRegistry, on a registry whose populated flag is set.       *)

has_service(r, service_id) == item_with_id(r, service_id) # None

is_enabled(r, service_id) ==
    has_service(r, service_id) /\ service_id \in r.enabled

\* set_default_service without the is_enabled() test.
set_default_service_without_enabled_check(r, service, save_it, ord) ==
    LET r1 == IF service = None
              THEN [r EXCEPT !.defaultId = None]
              ELSE IF service \notin r.items
              THEN raise(r, "AvatarServiceNotFoundError")
              ELSE [r EXCEPT !.defaultId = avatar_service_id(service)]
    IN IF r1.exc = "none" /\ save_it THEN save(r1, ord) ELSE r1

set_default_service_populated(r, service, save_it, ord) ==
    LET r1 == IF service = None
              THEN [r EXCEPT !.defaultId = None]
              ELSE IF service \notin r.items
              THEN raise(r, "AvatarServiceNotFoundError")
              ELSE IF ~is_enabled(r, avatar_service_id(service))
              THEN raise(r, "DisabledServiceError")
              ELSE [r EXCEPT !.defaultId = avatar_service_id(service)]
    IN IF r1.exc = "none" /\ save_it THEN save(r1, ord) ELSE r1

\* The default_service property: None, the service, or a lookup error.
default_service_raises(r) ==
    r.defaultId # None /\ ~has_service(r, r.defaultId)

\* disable_service without the check of the default service.
disable_service_keeping_default(r, service_id, save_it, ord) ==
    IF ~has_service(r, service_id)
    THEN raise(r, "AvatarServiceNotFoundError")
    ELSE LET r1 == [r EXCEPT !.enabled = @ \ {service_id}]
         IN IF save_it THEN save(r1, ord) ELSE r1

disable_service_populated(r, service_id, save_it, ord) ==
    IF ~has_service(r, service_id)
    THEN raise(r, "AvatarServiceNotFoundError")
    ELSE LET r1 == [r EXCEPT !.enabled = @ \ {service_id}]
         IN IF default_service_raises(r1)
            THEN raise(r1, "AvatarServiceNotFoundError")
            ELSE LET r2 == IF r1.defaultId # None /\ r1.defaultId = service_id
                           THEN set_default_service_populated(r1, None, TRUE,
                                                              ord)
                           ELSE r1
                 IN IF save_it THEN save(r2, ord) ELSE r2

\* enable_service adding the id before it looks the service up.
enable_service_adding_first(r, service_id, save_it, ord) ==
    LET r1 == [r EXCEPT !.enabled = @ \cup {service_id}]
    IN IF ~has_service(r, service_id)
       THEN raise(r1, "AvatarServiceNotFoundError")
       ELSE IF save_it THEN save(r1, ord) ELSE r1

enable_service_populated(r, service_id, save_it, ord) ==
    IF ~has_service(r, service_id)
    THEN raise(r, "AvatarServiceNotFoundError")
    ELSE LET r1 == [r EXCEPT !.enabled = @ \cup {service_id}]
         IN IF save_it THEN save(r1, ord) ELSE r1

----------------------------------------------------------------------------
(* AvatarServiceRegistry.populate *)

\* The loop of populate without the has_service() test.
RECURSIVE populate_enabled_unchecked(_, _, _, _)
populate_enabled_unchecked(r, avatar_service_ids, i, ord) ==
    IF i > Len(avatar_service_ids) THEN r
    ELSE populate_enabled_unchecked(
             [r EXCEPT !.enabled = @ \cup {avatar_service_ids[i]}],
             avatar_service_ids, i + 1, ord)

RECURSIVE populate_enabled(_, _, _, _)
populate_enabled(r, avatar_service_ids, i, ord) ==
    IF i > Len(avatar_service_ids) \/ r.exc # "none" THEN r
    ELSE LET sid == avatar_service_ids[i]
             r1 == IF has_service(r, sid)
                   THEN enable_service_populated(r, sid, FALSE, ord)
                   ELSE log_error(r, "unknown_service_enabled", sid)
         IN populate_enabled(r1, avatar_service_ids, i + 1, ord)

\* populate reading the stored default without setting it.
populate_default_ignored(r0, ord) == siteconfig_get(r0)

populate_default(r0, ord) ==
    LET r == siteconfig_get(r0)
        default_service_id == r.cfgDefault
    IN IF default_service_id = None THEN r
       ELSE IF ~has_service(r, default_service_id)
       THEN log_error(r, "unknown_service_default", default_service_id)
       ELSE LET r1 == set_default_service_populated(
                          r, item_with_id(r, default_service_id), TRUE, ord)
            IN IF r1.exc = "AvatarServiceNotFoundError"
               THEN log_error(raise(r1, "none"), "unknown_service_default",
                              default_service_id)
               ELSE IF r1.exc = "DisabledServiceError"
               THEN log_error(raise(r1, "none"), "disabled_service_default",
                              default_service_id)
               ELSE r1

\* populate reading the store again on a populated registry.
populate_reloading(r, ord) ==
    LET r1 == siteconfig_get(IF r.populated THEN r ELSE Registry_populate(r))
        avatar_service_ids == r1.cfgEnabled
        r2 == IF avatar_service_ids # NoList /\ avatar_service_ids # <<>>
              THEN populate_enabled(r1, avatar_service_ids, 1, ord)
              ELSE r1
        r3 == IF r2.exc = "none" THEN populate_default(r2, ord) ELSE r2
    IN IF r3.exc = "none" THEN save(r3, ord) ELSE r3

populate(r, ord) ==
    IF r.populated THEN r
    ELSE LET r1 == siteconfig_get(Registry_populate(r))
             avatar_service_ids == r1.cfgEnabled
             r2 == IF avatar_service_ids # NoList /\ avatar_service_ids # <<>>
                   THEN populate_enabled(r1, avatar_service_ids, 1, ord)
                   ELSE r1
             r3 == IF r2.exc = "none" THEN populate_default(r2, ord) ELSE r2
         IN IF r3.exc = "none" THEN save(r3, ord) ELSE r3

----------------------------------------------------------------------------
(* The public methods: each populates the registry first. *)

set_default_service(r, service, save_it, ord) ==
    LET r1 == populate(r, ord)
    IN IF r1.exc # "none" THEN r1
       ELSE set_default_service_populated(r1, service, save_it, ord)

disable_service(r, service_id, save_it, ord) ==
    LET r1 == populate(r, ord)
    IN IF r1.exc # "none" THEN r1
       ELSE disable_service_populated(r1, service_id, save_it, ord)

enable_service(r, service_id, save_it, ord) ==
    LET r1 == populate(r, ord)
    IN IF r1.exc # "none" THEN r1
       ELSE enable_service_populated(r1, service_id, save_it, ord)

RECURSIVE disable_all(_, _, _, _)
disable_all(r, ids, i, ord) ==
    IF i > Len(ids) \/ r.exc # "none" THEN r
    ELSE disable_all(disable_service_populated(r, ids[i], FALSE, ord),
                     ids, i + 1, ord)

RECURSIVE enable_all(_, _, _, _)
enable_all(r, ids, i, ord) ==
    IF i > Len(ids) \/ r.exc # "none" THEN r
    ELSE enable_all(enable_service_populated(r, ids[i], FALSE, ord),
                    ids, i + 1, ord)

\* The setter enabling what it knows instead of raising on an unknown id.
set_enabled_services_skipping_unknown(r, services, ord) ==
    LET r1 == populate(r, ord)
        new_service_ids == {avatar_service_id(s) : s \in services} \cap
                           {avatar_service_id(s) : s \in r1.items}
        r2 == disable_all(r1, list_of(r1.enabled \ new_service_ids, ord), 1,
                          ord)
        r3 == enable_all(r2, list_of(new_service_ids \ r1.enabled, ord), 1,
                         ord)
    IN save(r3, ord)

\* The setter without the loop over to_disable.
set_enabled_services_only_enabling(r, services, ord) ==
    LET r1 == populate(r, ord)
    IN IF \E s \in services : ~has_service(r1, avatar_service_id(s))
       THEN raise(r1, "AvatarServiceNotFoundError")
       ELSE LET new_service_ids == {avatar_service_id(s) : s \in services}
                r3 == enable_all(r1, list_of(new_service_ids \ r1.enabled,
                                             ord), 1, ord)
            IN save(r3, ord)

set_enabled_services(r, services, ord) ==
    LET r1 == populate(r, ord)
    IN IF r1.exc # "none" THEN r1
       ELSE IF \E s \in services : ~has_service(r1, avatar_service_id(s))
       THEN raise(r1, "AvatarServiceNotFoundError")
       ELSE LET new_service_ids == {avatar_service_id(s) : s \in services}
                to_enable == new_service_ids \ r1.enabled
                to_disable == r1.enabled \ new_service_ids
                r2 == disable_all(r1, list_of(to_disable, ord), 1, ord)
                r3 == enable_all(r2, list_of(to_enable, ord), 1, ord)
            IN IF r3.exc # "none" THEN r3
               ELSE IF default_service_raises(r3)
               THEN raise(r3, "AvatarServiceNotFoundError")
               ELSE LET r4 == IF r3.defaultId # None
                                 /\ ~is_enabled(r3, r3.defaultId)
                              THEN set_default_service_populated(r3, None,
                                                                 TRUE, ord)
                              ELSE r3
                    IN save(r4, ord)

get_enabled_services(r, ord) ==
    LET r1 == populate(r, ord)
    IN IF r1.exc # "none" THEN r1
       ELSE IF \E sid \in r1.enabled : ~has_service(r1, sid)
       THEN raise(r1, "AvatarServiceNotFoundError")
       ELSE r1

get_default_service(r, ord) ==
    LET r1 == populate(r, ord)
    IN IF r1.exc # "none" THEN r1
       ELSE IF default_service_raises(r1)
       THEN raise(r1, "AvatarServiceNotFoundError")
       ELSE r1

\* for_user returning the requested service whenever it is registered.
for_user_ignoring_enabled(r, user_service_id, service_id, ord) ==
    LET r1 == populate(r, ord)
    IN IF service_id # None /\ has_service(r1, service_id)
       THEN [r1 EXCEPT !.ret = item_with_id(r1, service_id)]
       ELSE IF user_service_id # None /\ is_enabled(r1, user_service_id)
       THEN [r1 EXCEPT !.ret = item_with_id(r1, user_service_id)]
       ELSE IF r1.defaultId = None THEN r1
       ELSE [r1 EXCEPT !.ret = item_with_id(r1, r1.defaultId)]

\* user_service_id is what the user's settings manager holds.
for_user(r, user_service_id, service_id, ord) ==
    LET r1 == populate(r, ord)
        found(sid) == sid # None /\ has_service(r1, sid)
                          /\ is_enabled(r1, sid)
    IN IF r1.exc # "none" THEN r1
       ELSE IF found(service_id)
       THEN [r1 EXCEPT !.ret = item_with_id(r1, service_id)]
       ELSE IF found(user_service_id)
       THEN [r1 EXCEPT !.ret = item_with_id(r1, user_service_id)]
       ELSE IF default_service_raises(r1)
       THEN raise(r1, "AvatarServiceNotFoundError")
       ELSE IF r1.defaultId = None THEN r1
       ELSE [r1 EXCEPT !.ret = item_with_id(r1, r1.defaultId)]

register(r, item, ord) ==
    LET r1 == populate(r, ord)
    IN IF r1.exc # "none" THEN r1 ELSE Registry_register(r1, item)

\* unregister without the disable_service() call.
unregister_without_disable(r, service, ord) ==
    LET r1 == populate(r, ord)
    IN IF r1.exc # "none" THEN r1 ELSE Registry_unregister(r1, service)

unregister(r, service, ord) ==
    LET r1 == disable_service(r, avatar_service_id(service), TRUE, ord)
    IN IF r1.exc # "none" THEN r1 ELSE Registry_unregister(r1, service)

----------------------------------------------------------------------------
(* The counter field of djblets (djblets/db/fields/counter_field.py): a    *)
(* model with the CounterFields "count" (which may have an initializer)    *)
(* and "extra" and the ordinary field "name", one stored row, and writers  *)
(* that each hold an in-memory instance.  A storage statement is one step. *)

Writers == {"w1", "w2"}

CounterFields == {"count", "extra"}

Columns == CounterFields \cup {"name"}

\* Most atomic updates (increments, decrements) issued in one behaviour.
MaxUpdates == 2

\* The values of a counter: an integer, None (NULL when stored) or a query
\* expression (QueryExpressionType).
I(n) == <<"int", n>>

NoneVal == <<"none">>

Expr == <<"expr">>

is_int(v) == v[1] = "int"

\* The primary key of the stored row; an unsaved instance has pk None.
RowPk == "pk1"

\* What the counter of the stored row starts at.
InitialCounts == {10}

\* The integers an initializer function returns.
InitializerResults == {3}

Amounts == {0, 1}

Names == {0, 1}

\* update_fields=None of Model.save(), which is no collection of names.
NoUpdateFields == {None}

UpdateFieldSets ==
    {NoUpdateFields, {"name"}, {"count"}, {"count", "name"}}

\* The dictionaries passed to increment_many and decrement_many.
ManyValues ==
    UNION {[fs -> {0, 1}] : fs \in SUBSET CounterFields}

\* F(attname) + delta, evaluated by the database: NULL stays NULL.
F_plus(stored, delta) ==
    IF is_int(stored) THEN I(stored[2] + delta) ELSE stored

\* The query expression of an initializer, evaluated by the database on the
\* stored row.
expression_value(row) == I(row.name + 1)

\* queryset.update(**values) on the row: values maps columns to deltas.
queryset_update(row, values) ==
    [c \in Columns |->
        IF c \in DOMAIN values THEN F_plus(row[c], values[c]) ELSE row[c]]

\* CounterField._update_values: fields to deltas, zero amounts dropped.
update_values_keeping_zero(values, multiplier) ==
    [a \in DOMAIN values |-> values[a] * multiplier]

_update_values(values, multiplier) ==
    [a \in {b \in DOMAIN values : values[b] # 0} |-> values[a] * multiplier]

\* CounterField._reload_model_instance
_reload_model_instance(instance, row, attnames) ==
    [f \in DOMAIN instance |->
        IF f \in attnames THEN row[f] ELSE instance[f]]

\* CounterField.increment and decrement on the queryset of one row.
increment_read_modify_write(row, instance, increment_by) ==
    [row EXCEPT !.count = F_plus(instance.count, increment_by)]

increment(row, instance, increment_by) ==
    queryset_update(row, [a \in {"count"} |-> increment_by])

decrement(row, instance, decrement_by) ==
    queryset_update(row, [a \in {"count"} |-> 0 - decrement_by])

\* The fields Model.save() hands to _do_update.
save_values(update_fields) ==
    IF update_fields = NoUpdateFields THEN Columns
    ELSE Columns \cap update_fields

\* CounterField._model_do_update: the columns that are written.
do_update_unfiltered(instance, update_fields) ==
    save_values(update_fields)

\* The filter dropping every counter that is not None, named or not.
do_update_ignoring_update_fields(instance, update_fields) ==
    {f \in save_values(update_fields) :
        f \notin CounterFields \/ instance[f] = NoneVal}

_model_do_update(instance, update_fields) ==
    {f \in save_values(update_fields) :
        \/ f \notin CounterFields
        \/ instance[f] = NoneVal
        \/ (update_fields # NoUpdateFields /\ update_fields # {}
                /\ f \in update_fields)}

\* Model.save(update_fields) of an instance with a primary key.
model_save(row, instance, update_fields) ==
    [c \in Columns |->
        IF c \in _model_do_update(instance, update_fields)
        THEN instance[c] ELSE row[c]]

\* A _reinit that never returns early.
reinit_never_deferred(instance, init) == FALSE

\* The test at the start of CounterField._reinit: reinit returns at once.
reinit_deferred(instance, init) ==
    ~(instance.pk # None \/ init # "none" \/ init = "callable")

\* The value that reinit applies: a query expression cannot be evaluated
\* for an instance without a row, and becomes 0.
reinit_value_uncoerced(value, instance) == value

reinit_value(value, instance) ==
    IF value = Expr /\ instance.pk = None THEN I(0) ELSE value

\* CounterField._post_init: whether _do_post_init runs.
post_init_unguarded(held, w) == TRUE

post_init_runs(held, w) == w \notin held

\* CounterField._do_post_init: whether reinit is called.
do_post_init_reinits(instance) == instance.count = NoneVal

NoPend == [fields |-> {}, value |-> NoneVal]

NoCop ==
    [op |-> "init", w |-> None, arg |-> None, sql |-> "none",
     written |-> {}]

NoGhost ==
    [base |-> NoneVal, sum |-> 0, updates |-> 0,
     calls |-> [w \in Writers |-> 0],
     nested |-> [w \in Writers |-> FALSE]]

\* The counter part of the state while only the registry is looked at.
CounterUnused ==
    /\ initializer = "none"
    /\ db = [count |-> I(0), extra |-> I(0), name |-> 0]
    /\ inst = [w \in Writers |->
                  [pk |-> None, count |-> NoneVal, extra |-> NoneVal,
                   name |-> 0]]
    /\ pc = [w \in Writers |-> "idle"]
    /\ pend = [w \in Writers |-> NoPend]
    /\ locks = {}
    /\ ghost = NoGhost
    /\ cop = NoCop

----------------------------------------------------------------------------
(* The state machine. *)

Threads == {"t1", "t2"}

\* A thread that is in no call.
NoThread ==
    [pc |-> "idle", op |-> None, exc |-> "none", enabled |-> {},
     defaultId |-> None]

NoCall ==
    [op |-> "init", arg |-> None, save |-> TRUE, exc |-> "none",
     prePopulated |-> FALSE, writes |-> <<>>, logged |-> {}, reads |-> 0,
     ret |-> None]

Init ==
    /\ populated = FALSE
    /\ items = {}
    /\ enabled = {}
    /\ defaultId = None
    /\ cfgEnabled \in {NoList} \cup StoredLists
    /\ cfgDefault \in {None} \cup ServiceIds
    /\ call = NoCall
    /\ threads = [t \in Threads |-> NoThread]
    /\ CounterUnused

\* The registry and the store become r; the call is recorded.
Becomes(r, op, arg, save_it) ==
    /\ populated' = r.populated
    /\ items' = r.items
    /\ enabled' = r.enabled
    /\ defaultId' = r.defaultId
    /\ cfgEnabled' = r.cfgEnabled
    /\ cfgDefault' = r.cfgDefault
    /\ call' = [op |-> op, arg |-> arg, save |-> save_it, exc |-> r.exc,
                prePopulated |-> populated, writes |-> r.writes,
                logged |-> r.logged, reads |-> r.reads, ret |-> r.ret]
    /\ UNCHANGED threads
    /\ UNCHANGED ctrVars

CallPopulate ==
    \E ord \in Orders : Becomes(populate(Cur, ord), "populate", None, TRUE)

CallSave ==
    \E ord \in Orders : Becomes(save(Cur, ord), "save", None, TRUE)

ReadEnabledServices ==
    \E ord \in Orders :
        Becomes(get_enabled_services(Cur, ord), "enabled_services", None,
                TRUE)

ReadDefaultService ==
    \E ord \in Orders :
        Becomes(get_default_service(Cur, ord), "default_service", None, TRUE)

AssignEnabledServices ==
    \E services \in SUBSET Services, ord \in Orders :
        Becomes(set_enabled_services(Cur, services, ord),
                "set_enabled_services", services, TRUE)

CallSetDefaultService ==
    \E service \in Services \cup {None}, save_it \in BOOLEAN,
       ord \in Orders :
        Becomes(set_default_service(Cur, service, save_it, ord),
                "set_default_service", service, save_it)

CallEnableService ==
    \E service_id \in ServiceIds, save_it \in BOOLEAN, ord \in Orders :
        Becomes(enable_service(Cur, service_id, save_it, ord),
                "enable_service", service_id, save_it)

CallDisableService ==
    \E service_id \in ServiceIds, save_it \in BOOLEAN, ord \in Orders :
        Becomes(disable_service(Cur, service_id, save_it, ord),
                "disable_service", service_id, save_it)

CallRegister ==
    \E item \in Services, ord \in Orders :
        Becomes(register(Cur, item, ord), "register", item, TRUE)

CallUnregister ==
    \E service \in Services, ord \in Orders :
        Becomes(unregister(Cur, service, ord), "unregister", service, TRUE)

CallForUser ==
    \E user_service_id \in ServiceIds \cup {None},
       service_id \in ServiceIds \cup {None}, ord \in Orders :
        Becomes(for_user(Cur, user_service_id, service_id, ord), "for_user",
                <<user_service_id, service_id>>, TRUE)

\* Another process saves its own registry state to the shared site
\* configuration.
StoreChanged ==
    /\ populated
    /\ cfgEnabled' \in StoredLists
    /\ cfgDefault' \in {None} \cup ServiceIds
    /\ call' = [NoCall EXCEPT !.op = "store_changed", !.prePopulated = TRUE]
    /\ UNCHANGED <<populated, items, enabled, defaultId, threads>>
    /\ UNCHANGED ctrVars

Next ==
    \/ CallPopulate
    \/ CallSave
    \/ ReadEnabledServices
    \/ ReadDefaultService
    \/ AssignEnabledServices
    \/ CallSetDefaultService
    \/ CallEnableService
    \/ CallDisableService
    \/ CallRegister
    \/ CallUnregister
    \/ CallForUser
    \/ StoreChanged

Spec == Init /\ [][Next]_vars

----------------------------------------------------------------------------
(* The state machine of the counter field. *)

NoInstance ==
    [pk |-> None, count |-> NoneVal, extra |-> NoneVal, name |-> 0]

\* The registry part of the state while only the counter is looked at.
RegistryUnused ==
    /\ populated = FALSE
    /\ items = {}
    /\ enabled = {}
    /\ defaultId = None
    /\ cfgEnabled = NoList
    /\ cfgDefault = None
    /\ call = NoCall
    /\ threads = [t \in Threads |-> NoThread]

\* Writers that have each loaded the stored row, whose counters are set.
CounterInit ==
    /\ RegistryUnused
    /\ initializer = "none"
    /\ db \in [count : {I(v) : v \in InitialCounts}, extra : {I(0)},
               name : {0}]
    /\ inst = [w \in Writers |->
                  [pk |-> RowPk, count |-> db.count, extra |-> db.extra,
                   name |-> db.name]]
    /\ pc = [w \in Writers |-> "idle"]
    /\ pend = [w \in Writers |-> NoPend]
    /\ locks = {}
    /\ ghost = [NoGhost EXCEPT !.base = db.count]
    /\ cop = NoCop

\* Writers that have no instance yet, of a model whose counter "count" has
\* any kind of initializer; the stored counter may be NULL.
ReinitInit ==
    /\ RegistryUnused
    /\ initializer \in {"none", "expr", "callable"}
    /\ db \in [count : {I(v) : v \in InitialCounts} \cup {NoneVal},
               extra : {I(0)}, name : {0}]
    /\ inst = [w \in Writers |-> NoInstance]
    /\ pc = [w \in Writers |-> "start"]
    /\ pend = [w \in Writers |-> NoPend]
    /\ locks = {}
    /\ ghost = [NoGhost EXCEPT !.base = db.count]
    /\ cop = NoCop

Did(op, w, arg, sql, written) ==
    cop' = [op |-> op, w |-> w, arg |-> arg, sql |-> sql,
            written |-> written]

\* A direct write of the counter column starts a new sum of deltas.
Rebased(value) == [ghost EXCEPT !.base = value, !.sum = 0]

Counted(values) ==
    [ghost EXCEPT !.updates = @ + 1,
                  !.sum = @ + (IF "count" \in DOMAIN values
                               THEN values["count"] ELSE 0)]

\* CounterField._reinit up to the call of the initializer function.
ReinitBegins(w, instance) ==
    IF reinit_deferred(instance, initializer)
    THEN /\ pc' = [pc EXCEPT ![w] = "idle"]
         /\ UNCHANGED <<pend, locks>>
         /\ ghost' = [ghost EXCEPT !.calls[w] = 0, !.nested[w] = FALSE]
    ELSE IF initializer = "callable"
    THEN /\ pc' = [pc EXCEPT ![w] = "initializer"]
         /\ locks' = locks \cup {w}
         /\ ghost' = [ghost EXCEPT !.calls[w] = 1, !.nested[w] = FALSE]
         /\ UNCHANGED pend
    ELSE /\ pc' = [pc EXCEPT ![w] = "apply"]
         /\ pend' = [pend EXCEPT ![w].value =
                        IF initializer = "expr" THEN Expr ELSE I(0)]
         /\ ghost' = [ghost EXCEPT !.calls[w] = 0, !.nested[w] = FALSE]
         /\ UNCHANGED locks

\* A model instance is constructed, from the stored row or unsaved, and the
\* post_init signal reaches CounterField._post_init.
Construct(w) ==
    /\ pc[w] \in {"start", "idle"}
    /\ \E from_db \in BOOLEAN :
        LET instance == IF from_db
                        THEN [pk |-> RowPk, count |-> db.count,
                              extra |-> db.extra, name |-> db.name]
                        ELSE NoInstance
        IN /\ inst' = [inst EXCEPT ![w] = instance]
           /\ IF post_init_runs(locks, w) /\ do_post_init_reinits(instance)
              THEN ReinitBegins(w, instance)
              ELSE /\ pc' = [pc EXCEPT ![w] = "idle"]
                   /\ ghost' = [ghost EXCEPT !.calls[w] = 0,
                                              !.nested[w] = FALSE]
                   /\ UNCHANGED <<pend, locks>>
           /\ Did("construct", w, from_db, "none", {})
    /\ UNCHANGED <<initializer, db>>
    /\ UNCHANGED regVars

\* reinit_count() called on an instance.
CallReinit(w) ==
    /\ pc[w] = "idle"
    /\ ReinitBegins(w, inst[w])
    /\ Did("reinit", w, None, "none", {})
    /\ UNCHANGED <<initializer, db, inst>>
    /\ UNCHANGED regVars

\* The running initializer makes post_init fire again for its instance.
NestedPostInit(w) ==
    /\ pc[w] = "initializer"
    /\ ghost.calls[w] <= 2
    /\ IF post_init_runs(locks, w) /\ do_post_init_reinits(inst[w])
       THEN ghost' = [ghost EXCEPT !.calls[w] = @ + 1, !.nested[w] = TRUE]
       ELSE ghost' = [ghost EXCEPT !.nested[w] = TRUE]
    /\ Did("nested_post_init", w, None, "none", {})
    /\ UNCHANGED <<initializer, db, inst, pc, pend, locks>>
    /\ UNCHANGED regVars

\* The initializer function returns; the lock is deleted.
InitializerReturns(w) ==
    /\ pc[w] = "initializer"
    /\ \E value \in {NoneVal, Expr} \cup {I(n) : n \in InitializerResults} :
        /\ pend' = [pend EXCEPT ![w].value = value]
        /\ UNCHANGED ghost
        /\ Did("initializer_returns", w, value, "none", {})
    /\ locks' = locks \ {w}
    /\ pc' = [pc EXCEPT ![w] = "apply"]
    /\ UNCHANGED <<initializer, db, inst>>
    /\ UNCHANGED regVars

\* The initializer function raises: the exception leaves _reinit at the
\* call, before the lock is deleted.
InitializerRaises(w) ==
    /\ pc[w] = "initializer"
    /\ pc' = [pc EXCEPT ![w] = "idle"]
    /\ Did("initializer_raises", w, None, "none", {})
    /\ UNCHANGED <<initializer, db, inst, pend, locks, ghost>>
    /\ UNCHANGED regVars

\* CounterField._reinit from "if value is not None".
ReinitApply(w) ==
    /\ pc[w] = "apply"
    /\ LET value0 == pend[w].value
           value == reinit_value(value0, inst[w])
           is_expr == value = Expr
       IN IF value0 = NoneVal
          THEN /\ UNCHANGED <<db, inst, ghost>>
               /\ pc' = [pc EXCEPT ![w] = "idle"]
               /\ pend' = [pend EXCEPT ![w] = NoPend]
               /\ Did("reinit_apply", w, value0, "none", {})
          ELSE IF is_expr
          THEN /\ db' = [db EXCEPT !.count = expression_value(db)]
               /\ ghost' = Rebased(expression_value(db))
               /\ pc' = [pc EXCEPT ![w] = "reload"]
               /\ pend' = [pend EXCEPT ![w] = [fields |-> {"count"},
                                               value |-> NoneVal]]
               /\ UNCHANGED inst
               /\ Did("reinit_apply", w, value0, "update", {"count"})
          ELSE LET instance == [inst[w] EXCEPT !.count = value]
               IN /\ inst' = [inst EXCEPT ![w] = instance]
                  /\ pc' = [pc EXCEPT ![w] = "idle"]
                  /\ pend' = [pend EXCEPT ![w] = NoPend]
                  /\ IF instance.pk # None
                     THEN /\ db' = model_save(db, instance, {"count"})
                          /\ ghost' =
                                 IF "count" \in
                                        _model_do_update(instance, {"count"})
                                 THEN Rebased(value) ELSE ghost
                          /\ Did("reinit_apply", w, value0, "save",
                                 _model_do_update(instance, {"count"}))
                     ELSE /\ UNCHANGED <<db, ghost>>
                          /\ Did("reinit_apply", w, value0, "none", {})
    /\ UNCHANGED <<initializer, locks>>
    /\ UNCHANGED regVars

\* The reload that follows an update: _reload_model_instance.
ReloadStep(w) ==
    /\ pc[w] = "reload"
    /\ inst' = [inst EXCEPT ![w] =
                   _reload_model_instance(inst[w], db, pend[w].fields)]
    /\ pc' = [pc EXCEPT ![w] = "idle"]
    /\ pend' = [pend EXCEPT ![w] = NoPend]
    /\ Did("reload_step", w, pend[w].fields, "select", {})
    /\ UNCHANGED <<initializer, db, locks, ghost>>
    /\ UNCHANGED regVars

\* What follows the update of a counter method: the reload, if asked for.
ThenReload(w, fields, reload_object) ==
    IF reload_object
    THEN /\ pc' = [pc EXCEPT ![w] = "reload"]
         /\ pend' = [pend EXCEPT ![w] = [fields |-> fields,
                                         value |-> NoneVal]]
    ELSE UNCHANGED <<pc, pend>>

CanUpdate(w) ==
    /\ pc[w] = "idle"
    /\ inst[w].pk = RowPk
    /\ ghost.updates < MaxUpdates

\* CounterField._increment (increment_count on the instance).
Increment(w) ==
    /\ CanUpdate(w)
    /\ \E increment_by \in Amounts, reload_object \in BOOLEAN :
        IF increment_by # 0
        THEN /\ db' = increment(db, inst[w], increment_by)
             /\ ghost' = Counted([a \in {"count"} |-> increment_by])
             /\ ThenReload(w, {"count"}, reload_object)
             /\ Did("increment", w, increment_by, "update", {"count"})
        ELSE /\ UNCHANGED <<db, pc, pend, ghost>>
             /\ Did("increment", w, increment_by, "none", {})
    /\ UNCHANGED <<initializer, inst, locks>>
    /\ UNCHANGED regVars

\* CounterField._decrement (decrement_count on the instance).
Decrement(w) ==
    /\ CanUpdate(w)
    /\ \E decrement_by \in Amounts, reload_object \in BOOLEAN :
        IF decrement_by # 0
        THEN /\ db' = decrement(db, inst[w], decrement_by)
             /\ ghost' = Counted([a \in {"count"} |-> 0 - decrement_by])
             /\ ThenReload(w, {"count"}, reload_object)
             /\ Did("decrement", w, decrement_by, "update", {"count"})
        ELSE /\ UNCHANGED <<db, pc, pend, ghost>>
             /\ Did("decrement", w, decrement_by, "none", {})
    /\ UNCHANGED <<initializer, inst, locks>>
    /\ UNCHANGED regVars

\* CounterField._set_values
SetValues(w, op, values, update_values, reload_object) ==
    IF DOMAIN update_values # {}
    THEN /\ db' = queryset_update(db, update_values)
         /\ ghost' = Counted(update_values)
         /\ ThenReload(w, DOMAIN update_values, reload_object)
         /\ Did(op, w, values, "update", DOMAIN update_values)
    ELSE /\ UNCHANGED <<db, pc, pend, ghost>>
         /\ Did(op, w, values, "none", {})

IncrementMany(w) ==
    /\ CanUpdate(w)
    /\ \E values \in ManyValues, reload_object \in BOOLEAN :
        SetValues(w, "increment_many", values, _update_values(values, 1),
                  reload_object)
    /\ UNCHANGED <<initializer, inst, locks>>
    /\ UNCHANGED regVars

DecrementMany(w) ==
    /\ CanUpdate(w)
    /\ \E values \in ManyValues, reload_object \in BOOLEAN :
        SetValues(w, "decrement_many", values, _update_values(values, -1),
                  reload_object)
    /\ UNCHANGED <<initializer, inst, locks>>
    /\ UNCHANGED regVars

\* CounterField._reload (reload_count on the instance).
CallReload(w) ==
    /\ pc[w] = "idle"
    /\ inst[w].pk = RowPk
    /\ inst' = [inst EXCEPT ![w] =
                   _reload_model_instance(inst[w], db, {"count"})]
    /\ Did("reload", w, {"count"}, "select", {})
    /\ UNCHANGED <<initializer, db, pc, pend, locks, ghost>>
    /\ UNCHANGED regVars

\* The application assigns to attributes of its instance: a new name, or
\* None to the counter (the reset that _model_do_update lets through).
SetAttributes(w) ==
    /\ pc[w] = "idle"
    /\ \/ \E n \in Names : inst' = [inst EXCEPT ![w].name = n]
       \/ inst' = [inst EXCEPT ![w].count = NoneVal]
    /\ Did("setattr", w, None, "none", {})
    /\ UNCHANGED <<initializer, db, pc, pend, locks, ghost>>
    /\ UNCHANGED regVars

\* Model.save(update_fields=...) of an instance that has a row.
Save(w) ==
    /\ pc[w] = "idle"
    /\ inst[w].pk = RowPk
    /\ \E update_fields \in UpdateFieldSets :
        LET written == _model_do_update(inst[w], update_fields)
        IN /\ db' = model_save(db, inst[w], update_fields)
           /\ ghost' = IF "count" \in written
                       THEN Rebased(inst[w].count) ELSE ghost
           /\ Did("save", w, update_fields, "save", written)
    /\ UNCHANGED <<initializer, inst, pc, pend, locks>>
    /\ UNCHANGED regVars

CounterNext ==
    \E w \in Writers :
        \/ Increment(w)
        \/ Decrement(w)
        \/ IncrementMany(w)
        \/ DecrementMany(w)
        \/ ReloadStep(w)
        \/ CallReload(w)

CounterSpec == CounterInit /\ [][CounterNext]_vars

\* Writers that increment, change their instances and save them.
SaveNext ==
    \E w \in Writers :
        \/ Increment(w)
        \/ ReloadStep(w)
        \/ SetAttributes(w)
        \/ Save(w)

SaveSpec == CounterInit /\ [][SaveNext]_vars

ReinitNext ==
    \E w \in Writers :
        \/ Construct(w)
        \/ CallReinit(w)
        \/ NestedPostInit(w)
        \/ InitializerReturns(w)
        \/ ReinitApply(w)
        \/ ReloadStep(w)
        \/ Increment(w)

ReinitSpec == ReinitInit /\ [][ReinitNext]_vars

\* Initializations whose initializer function may raise. The key of a lock
\* is the writer: id() of its instance, a later instance of the writer
\* having the address of the one it replaces.
LockNext ==
    \E w \in Writers :
        \/ Construct(w)
        \/ CallReinit(w)
        \/ NestedPostInit(w)
        \/ InitializerReturns(w)
        \/ InitializerRaises(w)
        \/ ReinitApply(w)
        \/ ReloadStep(w)

LockSpec == ReinitInit /\ [][LockNext]_vars

----------------------------------------------------------------------------
(* Threads of one process that share the registry: populate() step by      *)
(* step.                                                                   *)

PopulateInit ==
    /\ populated = FALSE
    /\ items = {}
    /\ enabled = {}
    /\ defaultId = None
    /\ cfgEnabled \in {NoList} \cup StoredLists
    /\ cfgDefault \in {None} \cup ServiceIds
    /\ call = NoCall
    /\ threads = [t \in Threads |-> NoThread]
    /\ CounterUnused

\* The registry and the store become r while a thread is inside populate.
Holds(r) ==
    /\ populated' = r.populated
    /\ items' = r.items
    /\ enabled' = r.enabled
    /\ defaultId' = r.defaultId
    /\ cfgEnabled' = r.cfgEnabled
    /\ cfgDefault' = r.cfgDefault
    /\ UNCHANGED call
    /\ UNCHANGED ctrVars

At(t, pc_, op) == threads' = [threads EXCEPT ![t].pc = pc_, ![t].op = op]

\* A thread calls populate() or reads a property, which calls populate():
\* the test of the flag and, on an unpopulated registry, the populate of
\* the base class.
ThreadCalls(t) ==
    /\ threads[t].pc = "idle"
    /\ \E op \in {"populate", "enabled_services", "default_service"} :
        IF populated
        THEN /\ At(t, "return", op)
             /\ UNCHANGED <<populated, items, enabled, defaultId, cfgEnabled,
                            cfgDefault, call>>
             /\ UNCHANGED ctrVars
        ELSE /\ At(t, "enabled_ids", op)
             /\ Holds(Registry_populate(Cur))

\* populate: the stored enabled ids are read and enabled.
LoadEnabledIds(t) ==
    /\ threads[t].pc = "enabled_ids"
    /\ \E ord \in Orders :
        LET r1 == siteconfig_get(Cur)
            avatar_service_ids == r1.cfgEnabled
        IN Holds(IF avatar_service_ids # NoList /\ avatar_service_ids # <<>>
                 THEN populate_enabled(r1, avatar_service_ids, 1, ord)
                 ELSE r1)
    /\ At(t, "default_id", threads[t].op)

\* populate: the stored default is read and set.
LoadDefaultId(t) ==
    /\ threads[t].pc = "default_id"
    /\ \E ord \in Orders : Holds(populate_default(Cur, ord))
    /\ At(t, "save", threads[t].op)

\* populate: the closing save().
PopulateSaves(t) ==
    /\ threads[t].pc = "save"
    /\ \E ord \in Orders : Holds(save(Cur, ord))
    /\ At(t, "return", threads[t].op)

\* The call returns: what the property read gives to its caller.
ThreadReturns(t) ==
    /\ threads[t].pc = "return"
    /\ LET op == threads[t].op
           r == IF op = "enabled_services"
                THEN get_enabled_services(Cur, CHOOSE o \in Orders : TRUE)
                ELSE IF op = "default_service"
                THEN get_default_service(Cur, CHOOSE o \in Orders : TRUE)
                ELSE Cur
       IN threads' = [threads EXCEPT ![t] =
               [pc |-> "done", op |-> op, exc |-> r.exc,
                enabled |-> IF op = "enabled_services" /\ r.exc = "none"
                            THEN r.enabled ELSE {},
                defaultId |-> IF op = "default_service" /\ r.exc = "none"
                              THEN r.defaultId ELSE None]]
    /\ UNCHANGED <<populated, items, enabled, defaultId, cfgEnabled,
                   cfgDefault, call>>
    /\ UNCHANGED ctrVars

PopulateNext ==
    \E t \in Threads :
        \/ ThreadCalls(t)
        \/ LoadEnabledIds(t)
        \/ LoadDefaultId(t)
        \/ PopulateSaves(t)
        \/ ThreadReturns(t)

PopulateSpec == PopulateInit /\ [][PopulateNext]_vars

----------------------------------------------------------------------------
(* Helpers of the properties. *)

registered_ids(its) == {avatar_service_id(s) : s \in its}

stored_ids(list) == IF list = NoList THEN {} ELSE set_of(list)

\* The registry and the store are what the lazy population at the start of a
\* call leaves (on a populated registry: what they were).
AsPopulated ==
    \E o \in Orders :
        LET p == populate(Cur, o)
        IN /\ enabled' = p.enabled
           /\ defaultId' = p.defaultId
           /\ cfgEnabled' = p.cfgEnabled
           /\ cfgDefault' = p.cfgDefault

\* The default service as the default_service property reports it.
populated_default == (populate(Cur, CHOOSE o \in Orders : TRUE)).defaultId

----------------------------------------------------------------------------
(* C1: the default service id is None or an enabled id in every state
   between public calls, and a disable_service(id) that returns leaves a
   default other than id: None when id was the default. *)
DefaultImpliesEnabled ==
    /\ defaultId = None \/ defaultId \in enabled
    /\ (call.op = "disable_service" /\ call.exc = "none")
           => defaultId # call.arg

DisableClearsDefault ==
    [][(call'.op = "disable_service" /\ call'.exc = "none"
            /\ populated_default = call'.arg)
           => defaultId' = None]_vars

C1_DefaultImpliesEnabled ==
    /\ [](DefaultImpliesEnabled)
    /\ DisableClearsDefault

\* disable_service(id, save=False) of the default of a populated registry
\* returned: the one write is that of the cleared default.
C1_Witness ==
    /\ call.op = "disable_service" /\ call.exc = "none"
    /\ call.prePopulated /\ ~call.save
    /\ Len(call.writes) = 1
    /\ defaultId = None

(* C2: every enabled id is the id of a registered service, and reading
   enabled_services never raises. *)
C2_EnabledImpliesRegistered ==
    /\ enabled \subseteq registered_ids(items)
    /\ call.op = "enabled_services" => call.exc = "none"

\* unregister() of the default (so enabled) service returned: disable_service
\* wrote twice, and the service is gone from the catalog.
C2_Witness ==
    /\ call.op = "unregister" /\ call.exc = "none"
    /\ call.prePopulated
    /\ Len(call.writes) = 2
    /\ call.arg \notin items
    /\ avatar_service_id(call.arg) \notin enabled

(* C3: the first populate() returns normally whatever the store holds; the
   enabled set is the stored ids that are registered, and the default is the
   stored default if it is registered and enabled, else None. *)
C3_TolerantPopulate ==
    [][(call'.op = "populate" /\ ~populated)
           => /\ call'.exc = "none"
              /\ enabled' = stored_ids(cfgEnabled) \cap registered_ids(items')
              /\ defaultId' =
                     IF cfgDefault \in registered_ids(items')
                        /\ cfgDefault \in enabled'
                     THEN cfgDefault ELSE None]_vars

\* A first populate() that dropped an unknown id and restored the default.
C3_Witness ==
    /\ call.op = "populate" /\ ~call.prePopulated
    /\ \E e \in call.logged : e[1] = "unknown_service_enabled"
    /\ enabled # {}
    /\ defaultId # None

\* A first populate() that dropped the stored default.
C3_WitnessDroppedDefault ==
    /\ call.op = "populate" /\ ~call.prePopulated
    /\ \E e \in call.logged :
           e[1] \in {"unknown_service_default", "disabled_service_default"}
    /\ defaultId = None

(* C4: assigning to enabled_services a set with a service whose id is not
   registered raises the lookup error and leaves the enabled set, the default
   and the store as they were after population. *)
C4_BulkSetterAllOrNothing ==
    [][(call'.op = "set_enabled_services"
            /\ \E s \in call'.arg :
                   avatar_service_id(s) \notin registered_ids(items'))
           => /\ call'.exc = "AvatarServiceNotFoundError"
              /\ AsPopulated]_vars

\* A failed assignment of a set with a registered and an unknown service, on
\* a populated registry with something enabled.
C4_Witness ==
    /\ call.op = "set_enabled_services"
    /\ call.exc = "AvatarServiceNotFoundError"
    /\ call.prePopulated
    /\ \E s \in call.arg : s \in items
    /\ \E s \in call.arg : avatar_service_id(s) \notin registered_ids(items)
    /\ enabled # {}

(* C5: assigning a set S of registered services to enabled_services makes the
   ids of S the enabled set, keeps a default that is None or in S and clears
   a default that is not in S. *)
C5_BulkSetterResult ==
    [][(call'.op = "set_enabled_services"
            /\ \A s \in call'.arg :
                   avatar_service_id(s) \in registered_ids(items'))
           => /\ call'.exc = "none"
              /\ enabled' = registered_ids(call'.arg)
              /\ defaultId' =
                     IF populated_default \in registered_ids(call'.arg)
                     THEN populated_default ELSE None]_vars

\* An assignment that enabled something and cleared the default.
C5_Witness ==
    /\ call.op = "set_enabled_services" /\ call.exc = "none"
    /\ call.prePopulated
    /\ Len(call.writes) = 2
    /\ enabled # {}
    /\ defaultId = None

\* An assignment that kept the default.
C5_WitnessKept ==
    /\ call.op = "set_enabled_services" /\ call.exc = "none"
    /\ call.prePopulated
    /\ defaultId # None
    /\ Cardinality(enabled) = 2

\* The in-memory state at the end of the last call, as save() writes it.
final_snapshot == [enabled |-> enabled, defaultId |-> defaultId]

(* C6: a successful assignment to enabled_services on a populated registry
   writes the store exactly once, with the final enabled set and default. *)
C6_BulkSetterPersistsOnce ==
    (call.op = "set_enabled_services" /\ call.exc = "none"
        /\ call.prePopulated)
        => call.writes = <<final_snapshot>>

(* C7: the first populate() writes the store exactly once, at its end, with
   the reconciled enabled set and default. *)
C7_PopulatePersistsOnce ==
    (call.op = "populate" /\ call.exc = "none" /\ ~call.prePopulated)
        => call.writes = <<final_snapshot>>

(* C8: enable_service, disable_service and set_default_service called with
   save=False on a populated registry leave the store as it was. *)
C8_DeferredSaveWritesNothing ==
    [][(populated /\ ~call'.save
            /\ call'.op \in {"enable_service", "disable_service",
                             "set_default_service"})
           => UNCHANGED <<cfgEnabled, cfgDefault>>]_vars

\* The last call was a strict mutator given an id or a service that the
\* registry does not know.
UnknownToMutator ==
    \/ /\ call'.op \in {"enable_service", "disable_service"}
       /\ call'.arg \notin registered_ids(items')
    \/ /\ call'.op = "set_default_service"
       /\ call'.arg # None
       /\ call'.arg \notin items'

(* C9 as stated: a strict mutator given an unknown id or service raises the
   lookup error and leaves the enabled set, the default and the store (its
   set of enabled ids and its default id) unchanged, in every state. *)
C9_StrictMutatorsUnchanged ==
    [][UnknownToMutator
           => /\ call'.exc = "AvatarServiceNotFoundError"
              /\ UNCHANGED <<enabled, defaultId, cfgDefault>>
              /\ stored_ids(cfgEnabled') = stored_ids(cfgEnabled)]_vars

(* C9 amended: a strict mutator given an unknown id or service raises the
   lookup error; on a populated registry the enabled set, the default and
   the store are unchanged, and on an unpopulated one they are what the
   population the call starts with leaves. *)
C9_StrictMutatorsAfterPopulation ==
    [][UnknownToMutator
           => /\ call'.exc = "AvatarServiceNotFoundError"
              /\ populated
                     => /\ call'.writes = <<>>
                        /\ UNCHANGED <<enabled, defaultId, cfgEnabled,
                                       cfgDefault>>
              /\ AsPopulated]_vars

\* enable_service of an unknown id failed on a populated registry with an
\* enabled service and a default.
C9_Witness ==
    /\ call.op = "enable_service"
    /\ call.exc = "AvatarServiceNotFoundError"
    /\ call.prePopulated
    /\ call.arg \notin registered_ids(items)
    /\ defaultId # None

(* C10: set_default_service of a registered service that is not enabled
   raises DisabledServiceError and changes neither the default, the enabled
   set nor the store; set_default_service(None) returns with the default
   None; set_default_service of a registered, enabled service makes it the
   default. *)
C10_SetDefaultService ==
    [][call'.op = "set_default_service"
           => /\ call'.arg = None
                     => call'.exc = "none" /\ defaultId' = None
              /\ (call'.arg \in items
                      /\ avatar_service_id(call'.arg) \notin enabled)
                     => /\ call'.exc = "DisabledServiceError"
                        /\ UNCHANGED <<enabled, defaultId, cfgEnabled,
                                       cfgDefault>>
              /\ (call'.arg \in items'
                      /\ avatar_service_id(call'.arg) \notin enabled')
                     => call'.exc = "DisabledServiceError" /\ AsPopulated
              /\ (call'.arg \in items'
                      /\ avatar_service_id(call'.arg) \in enabled')
                     => /\ call'.exc = "none"
                        /\ defaultId' = avatar_service_id(call'.arg)]_vars

\* set_default_service of a registered, disabled service failed and the
\* previous default is still there.
C10_Witness ==
    /\ call.op = "set_default_service"
    /\ call.exc = "DisabledServiceError"
    /\ call.prePopulated
    /\ call.arg \in items
    /\ defaultId # None
    /\ defaultId # avatar_service_id(call.arg)

----------------------------------------------------------------------------
(* The second group of properties of the registry. *)

\* The service of an id, or None.
service_of(its, service_id) ==
    IF service_id = None THEN None
    ELSE IF \E s \in its : avatar_service_id(s) = service_id
    THEN CHOOSE s \in its : avatar_service_id(s) = service_id
    ELSE None

usable(its, en, service_id) ==
    service_id # None /\ service_id \in registered_ids(its)
        /\ service_id \in en

(* C11: for_user returns the requested service if its id is given,
   registered and enabled, else the user's preferred service if its id is
   set, registered and enabled, else the default service or None; it never
   raises. *)
C11_ForUserResolution ==
    [][call'.op = "for_user"
           => LET user_service_id == call'.arg[1]
                  service_id == call'.arg[2]
              IN /\ call'.exc = "none"
                 /\ call'.ret =
                        IF usable(items', enabled', service_id)
                        THEN service_of(items', service_id)
                        ELSE IF usable(items', enabled', user_service_id)
                        THEN service_of(items', user_service_id)
                        ELSE service_of(items', defaultId')]_vars

\* The requested service is registered but disabled, and the user's enabled
\* preferred service was returned, which is not the default.
C11_Witness ==
    /\ call.op = "for_user" /\ call.exc = "none"
    /\ call.arg[2] # None
    /\ call.arg[2] \in registered_ids(items)
    /\ call.arg[2] \notin enabled
    /\ call.arg[1] \in enabled
    /\ call.ret = service_of(items, call.arg[1])
    /\ defaultId = None

\* The store holds the in-memory enabled set and default.
InSync ==
    /\ stored_ids(cfgEnabled) = enabled
    /\ cfgEnabled # NoList
    /\ cfgDefault = defaultId

(* C12: when populate, enable_service, disable_service, set_default_service
   (with save=True), the enabled_services setter or unregister returns
   normally in a process that saves every change, the stored enabled ids (as
   a set) and the stored default are the in-memory ones.  A populate() that
   finds the registry populated writes nothing and keeps the agreement it
   finds. *)
C12_WriteBack ==
    [][(call'.exc = "none" /\ call'.save
            /\ call'.op \in {"populate", "enable_service", "disable_service",
                             "set_default_service", "set_enabled_services",
                             "unregister"})
           => IF call'.op = "populate" /\ populated
              THEN InSync => InSync'
              ELSE InSync']_vars

\* unregister() of an enabled default service returned and the store holds
\* the emptied enabled set.
C12_Witness ==
    /\ call.op = "unregister" /\ call.exc = "none"
    /\ call.prePopulated
    /\ Len(call.writes) = 2
    /\ InSync
    /\ items # {}

(* C13: a populate() on a populated registry changes neither the catalog,
   the enabled set nor the default, and neither reads nor writes the store,
   whatever the store holds by then. *)
C13_IdempotentPopulate ==
    [][(call'.op = "populate" /\ populated)
           => /\ call'.exc = "none"
              /\ call'.reads = 0
              /\ call'.writes = <<>>
              /\ UNCHANGED <<populated, items, enabled, defaultId,
                             cfgEnabled, cfgDefault>>]_vars

\* A populate() on a populated registry whose store holds other enabled ids
\* and another default than the registry.
C13_Witness ==
    /\ call.op = "populate" /\ call.prePopulated
    /\ stored_ids(cfgEnabled) # enabled
    /\ cfgDefault # defaultId
    /\ enabled # {}

(* C14: unregister() of a service that is not registered, on a populated
   registry, fails with the not-registered error and changes neither the
   catalog, the enabled set, the default nor the store. *)
C14_UnregisterUnknown ==
    [][(call'.op = "unregister" /\ populated /\ call'.arg \notin items)
           => /\ call'.exc \in {"NotRegisteredError",
                                "AvatarServiceNotFoundError"}
              /\ UNCHANGED <<items, enabled, defaultId, cfgEnabled,
                             cfgDefault>>]_vars
----------------------------------------------------------------------------
(* The counter field. *)

\* The writer of the last step and the counter that its instance held
\* before the step.
last_writer == cop'.w

\* C15: no increment or decrement is lost. Whatever the interleaving of the
\* updates and reloads of the writers, each with its own copy of the row,
\* the stored counter is the value it started from plus the sum of the
\* increments minus the sum of the decrements; at every moment, so also
\* when every call has completed.
C15_NoLostUpdates ==
    is_int(ghost.base) => db.count = I(ghost.base[2] + ghost.sum)

\* Two writers have each issued their update of +1 on the stored 10 before
\* either has reloaded: the row holds 12.
C15_Witness ==
    /\ \A w \in Writers : pc[w] = "reload" /\ inst[w].count = I(10)
    /\ ghost.base = I(10)
    /\ ghost.sum = 2
    /\ db.count = I(12)

\* C16: a save writes the counter column only when the in-memory counter is
\* None or "count" is named in update_fields; a save that does not name it,
\* of an instance whose counter is not None, leaves the stored counter as
\* it is, with the increments that other writers committed.
C16_SaveKeepsCounter ==
    [][cop'.op = "save" =>
        LET w == last_writer
            update_fields == cop'.arg
            named == update_fields # NoUpdateFields
                        /\ "count" \in update_fields
        IN /\ "count" \in cop'.written =>
                  (inst[w].count = NoneVal \/ named)
           /\ (~named /\ inst[w].count # NoneVal) =>
                  /\ db'.count = db.count
                  /\ ghost'.base = ghost.base
                  /\ ghost'.sum = ghost.sum
           /\ db'.count # db.count => "count" \in cop'.written]_vars

\* A writer whose copy of the counter is stale, another writer having
\* incremented since, has saved its changed name without naming fields: the
\* stored counter still holds the increment.
C16_Witness ==
    /\ cop.op = "save"
    /\ cop.arg = NoUpdateFields
    /\ "name" \in cop.written
    /\ db.name = 1
    /\ inst[cop.w].count = I(10)
    /\ ghost.sum = 1
    /\ db.count = I(11)

\* The deltas of values that are not 0, by field.
nonzero(values) == {a \in DOMAIN values : values[a] # 0}

\* C17: increment_many and decrement_many add, respectively subtract, every
\* amount that is not 0 in one update of the row; a field whose amount is 0
\* is neither updated nor reloaded; when no amount is left there is no
\* update and no reload.
C17_ManyUpdates ==
    [][cop'.op \in {"increment_many", "decrement_many"} =>
        LET w == last_writer
            values == cop'.arg
            sign == IF cop'.op = "increment_many" THEN 1 ELSE -1
        IN /\ \A f \in CounterFields :
                  db'[f] = IF f \in nonzero(values)
                           THEN I(db[f][2] + sign * values[f])
                           ELSE db[f]
           /\ db'.name = db.name
           /\ cop'.written = nonzero(values)
           /\ cop'.sql = (IF nonzero(values) = {} THEN "none" ELSE "update")
           /\ pc'[w] = "reload" => pend'[w].fields = nonzero(values)
           /\ nonzero(values) = {} => UNCHANGED <<db, inst, pc, pend>>]_vars
    /\ [][cop'.op = "reload_step" =>
            \A f \in Columns :
                inst'[last_writer][f] =
                    IF f \in pend[last_writer].fields
                    THEN db[f] ELSE inst[last_writer][f]]_vars

\* An increment_many of {count: 1, extra: 0} has updated count only and
\* will reload count only.
C17_Witness ==
    /\ cop.op = "increment_many"
    /\ DOMAIN cop.arg = {"count", "extra"}
    /\ cop.arg["count"] = 1
    /\ cop.arg["extra"] = 0
    /\ cop.sql = "update"
    /\ pc[cop.w] = "reload"
    /\ pend[cop.w].fields = {"count"}
    /\ db.count = I(11)
    /\ db.extra = I(0)

\* A decrement_many whose amounts are all 0 has issued nothing.
C17_WitnessAllZero ==
    /\ cop.op = "decrement_many"
    /\ DOMAIN cop.arg = {"count", "extra"}
    /\ nonzero(cop.arg) = {}
    /\ cop.sql = "none"
    /\ pc[cop.w] = "idle"

\* C18: the initialization of an unset counter does not recurse. The
\* initializer runs once; a post_init of the same instance fired while the
\* initializer runs calls neither reinit nor the initializer and changes
\* nothing; the counter then is the value that the initializer returned.
C18_NoRecursion ==
    /\ [](\A w \in Writers : ghost.calls[w] <= 1)
    /\ [][cop'.op = "nested_post_init" =>
            /\ ghost'.calls = ghost.calls
            /\ UNCHANGED <<db, inst, pc, pend, locks>>]_vars
    /\ [][(cop'.op = "reinit_apply" /\ is_int(pend[last_writer].value)) =>
            /\ inst'[last_writer].count = pend[last_writer].value
            /\ inst[last_writer].pk # None =>
                   db'.count = pend[last_writer].value]_vars

\* An instance loaded with an unset counter: its initializer ran, post_init
\* fired again meanwhile, and the counter is the 3 that was returned.
C18_Witness ==
    /\ cop.op = "reinit_apply"
    /\ initializer = "callable"
    /\ ghost.nested[cop.w]
    /\ ghost.calls[cop.w] = 1
    /\ inst[cop.w].pk = RowPk
    /\ inst[cop.w].count = I(3)
    /\ db.count = I(3)

\* C19: reinit changes nothing (a) for an instance without a primary key of
\* a field without initializer, and (b) when the initializer function
\* returns None: the in-memory counter stays what it was, None if it was
\* unset, and nothing is written.
C19_ReinitDeferred ==
    /\ [][(/\ cop'.op \in {"construct", "reinit"}
           /\ inst'[last_writer].pk = None
           /\ initializer = "none") =>
            /\ pc'[last_writer] = "idle"
            /\ inst'[last_writer].count = NoneVal
            /\ cop'.op = "reinit" => UNCHANGED inst
            /\ cop'.sql = "none"
            /\ UNCHANGED <<db, pend, locks>>]_vars
    /\ [][(cop'.op = "reinit_apply" /\ pend[last_writer].value = NoneVal) =>
            /\ pc'[last_writer] = "idle"
            /\ cop'.sql = "none"
            /\ UNCHANGED <<db, inst>>]_vars

\* reinit was called on an instance without a row, the field having no
\* initializer.
C19_Witness ==
    /\ cop.op = "reinit"
    /\ initializer = "none"
    /\ inst[cop.w].pk = None
    /\ inst[cop.w].count = NoneVal
    /\ pc[cop.w] = "idle"

\* The initializer of an instance with a row, whose counter is unset,
\* returned None.
C19_WitnessReturnedNone ==
    /\ cop.op = "reinit_apply"
    /\ cop.arg = NoneVal
    /\ inst[cop.w].pk = RowPk
    /\ inst[cop.w].count = NoneVal
    /\ db.count = NoneVal

\* C20: an initializer value that is a query expression becomes 0 in memory,
\* without any update, for an instance without a primary key; for an
\* instance with one it is applied by one update of the row and then
\* reloaded, so that the instance holds the stored integer. No instance
\* ever holds the expression.
C20_ExpressionCoercion ==
    /\ [](\A w \in Writers : inst[w].count # Expr)
    /\ [][(cop'.op = "reinit_apply" /\ pend[last_writer].value = Expr) =>
            LET w == last_writer
            IN IF inst[w].pk = None
               THEN /\ inst'[w].count = I(0)
                    /\ cop'.sql = "none"
                    /\ pc'[w] = "idle"
                    /\ UNCHANGED db
               ELSE /\ cop'.sql = "update"
                    /\ db' = [db EXCEPT !.count = I(db.name + 1)]
                    /\ pc'[w] = "reload"
                    /\ pend'[w].fields = {"count"}
                    /\ UNCHANGED inst]_vars
    /\ [][cop'.op = "reload_step" =>
            /\ inst'[last_writer].count = db.count
            /\ UNCHANGED db]_vars
    /\ [][is_int(db.count) => is_int(db'.count)]_vars

\* The expression was applied to the row of an instance and reloaded: the
\* instance holds the integer that the row holds.
C20_Witness ==
    /\ cop.op = "reload_step"
    /\ initializer = "expr"
    /\ ghost.updates = 0
    /\ inst[cop.w].pk = RowPk
    /\ inst[cop.w].count = I(1)
    /\ db.count = I(1)

\* The expression of an initializer function became 0 for an instance
\* without a row.
C20_WitnessUnsaved ==
    /\ cop.op = "reinit_apply"
    /\ cop.arg = Expr
    /\ inst[cop.w].pk = None
    /\ inst[cop.w].count = I(0)

\* C21: reinit with a concrete integer n (the value that the initializer
\* function returned, or 0 for a field without initializer on an instance
\* with a row) sets the in-memory counter to n; it writes the row exactly
\* when the instance has a primary key, and then writes the counter column
\* alone, with n, the filter of saves letting the named field through.
C21_ConcreteReinitPersisted ==
    /\ [][(/\ cop'.op \in {"construct", "reinit"}
           /\ initializer = "none"
           /\ inst'[last_writer].pk # None
           /\ cop'.op = "construct" => inst'[last_writer].count = NoneVal) =>
            /\ pc'[last_writer] = "apply"
            /\ pend'[last_writer].value = I(0)]_vars
    /\ [][(cop'.op = "reinit_apply" /\ is_int(pend[last_writer].value)) =>
            LET w == last_writer
                n == pend[w].value
            IN /\ inst'[w] = [inst[w] EXCEPT !.count = n]
               /\ pc'[w] = "idle"
               /\ IF inst[w].pk # None
                  THEN /\ cop'.sql = "save"
                       /\ cop'.written = {"count"}
                       /\ db' = [db EXCEPT !.count = n]
                  ELSE /\ cop'.sql = "none"
                       /\ cop'.written = {}
                       /\ UNCHANGED db]_vars

\* reinit of an instance with a row, of a field without initializer, has
\* written 0 to the counter column of a row that held 10.
C21_Witness ==
    /\ cop.op = "reinit_apply"
    /\ cop.sql = "save"
    /\ cop.written = {"count"}
    /\ initializer = "none"
    /\ inst[cop.w].pk = RowPk
    /\ inst[cop.w].count = I(0)
    /\ db.count = I(0)
    /\ ghost.base = I(0)

\* The 3 that an initializer function returned was set on an instance
\* without a row; nothing was written.
C21_WitnessUnsaved ==
    /\ cop.op = "reinit_apply"
    /\ cop.sql = "none"
    /\ cop.arg = I(3)
    /\ inst[cop.w].pk = None
    /\ inst[cop.w].count = I(3)

\* What populate() makes of the store: the reconciled registry.
Reconciled ==
    populate([Cur EXCEPT !.populated = FALSE, !.items = {}, !.enabled = {},
                         !.defaultId = None],
             CHOOSE o \in Orders : TRUE)

\* C22: a read of enabled_services or default_service that returns
\* normally, while another thread may be inside populate(), returns the
\* enabled ids and the default that populate() reconciles from the store.
C22_ReadersSeePopulated ==
    \A t \in Threads :
        (threads[t].pc = "done" /\ threads[t].exc = "none") =>
            /\ threads[t].op = "enabled_services" =>
                   threads[t].enabled = Reconciled.enabled
            /\ threads[t].op = "default_service" =>
                   threads[t].defaultId = Reconciled.defaultId

\* C23: an increment by k that another writer commits after the
\* initializer function has returned n to reinit, and before reinit
\* applies n, is still in the stored counter when reinit has written:
\* the row holds n + k.
C23_IncrementSurvivesReinit ==
    [][(/\ initializer = "callable"
        /\ cop.op = "increment"
        /\ cop.sql = "update"
        /\ cop.w # last_writer
        /\ cop'.op = "reinit_apply"
        /\ is_int(pend[last_writer].value)
        /\ inst[last_writer].pk # None) =>
            db'.count = I(pend[last_writer].value[2] + cop.arg)]_vars

\* C24: the lock table of the field holds the id of an instance only while
\* the initializer function runs for it, also after a call of the
\* initializer that raised.
C24_LockOnlyWhileInitializing ==
    \A w \in locks : pc[w] = "initializer"

\* The store after save(), as contents: the enabled ids, how many there
\* are, and the default.
stored_contents(r) ==
    [ids |-> stored_ids(r.cfgEnabled), len |-> Len(r.cfgEnabled),
     defaultId |-> r.cfgDefault]

\* A fresh registry with the catalog of r, populated from the store of r:
\* populate() from the reading of the stored ids on.
Reloaded(r, ord) ==
    LET r1 == siteconfig_get([r EXCEPT !.populated = TRUE, !.enabled = {},
                                       !.defaultId = None, !.exc = "none",
                                       !.writes = <<>>, !.logged = {},
                                       !.reads = 0])
        avatar_service_ids == r1.cfgEnabled
        r2 == IF avatar_service_ids # NoList /\ avatar_service_ids # <<>>
              THEN populate_enabled(r1, avatar_service_ids, 1, ord)
              ELSE r1
        r3 == IF r2.exc = "none" THEN populate_default(r2, ord) ELSE r2
    IN IF r3.exc = "none" THEN save(r3, ord) ELSE r3

\* C25: in every state of the registry, a save() followed by the population
\* of a fresh registry with the same catalog from the store gives the same
\* enabled ids and the same default, with no id logged as invalid; a second
\* save() leaves the contents of the store what the first made them (the
\* very list when the set is listed in the same order, the same ids
\* otherwise).
C25_SaveRoundTrip ==
    \A ord1 \in Orders, ord2 \in Orders :
        LET saved == save(Cur, ord1)
            loaded == Reloaded(saved, ord2)
            again == save(saved, ord2)
        IN /\ loaded.exc = "none"
           /\ loaded.logged = {}
           /\ loaded.enabled = enabled
           /\ loaded.defaultId = defaultId
           /\ stored_contents(loaded) = stored_contents(saved)
           /\ stored_contents(again) = stored_contents(saved)
           /\ save(saved, ord1).cfgEnabled = saved.cfgEnabled
           /\ save(saved, ord1).cfgDefault = saved.cfgDefault

\* save() was called on a registry with a registered non-default service,
\* two enabled ids and the non-default one as the default.
C25_Witness ==
    /\ populated
    /\ call.op = "save"
    /\ "a1" \in items
    /\ enabled = {"G", "A"}
    /\ defaultId = "A"
    /\ stored_ids(cfgEnabled) = {"G", "A"}
    /\ cfgDefault = "A"

====
